---- MODULE Spec2Model ----
(***************************************************************************)
(* A model of afutil.py: patch geometry, the focal-plane cache, the lazy   *)
(* training-pair generator, the deterministic feature cache and the        *)
(* training/validation split utility.                                      *)
(*                                                                         *)
(* Each component is a small state machine over its own variables; a       *)
(* specification runs one component and leaves the others idle.            *)
(* Real-valued quantities are kept exact: a patch size is the rational     *)
(* num/den, a training fraction is the rational num/den, and focal planes  *)
(* and z steps are integers (micrometres scaled to whole units).           *)
(* An optional value is a sequence: <<>> for None, <<v>> for the value v.  *)
(* An uncaught exception ends the run: the source catches nothing.         *)
(***************************************************************************)
EXTENDS Integers, Sequences, FiniteSets, TLC

VARIABLES
    \* ---- get_patch_metadata
    image_size,      \* (width, height) passed to get_patch_metadata
    split_k,         \* split_k passed to get_patch_metadata
    patch_meta,      \* <<>> before the call, then <<(patch_size, patches_per_image)>>
    geo_pc,          \* "start" | "done"
    \* ---- feature_vector_generator_fn
    n_groups,          \* feature_vectors.shape[0] / split_k^2: whole field-of-view groups
    fv_split_k,        \* split_k passed to feature_vector_generator_fn
    training_fraction, \* the rational num / den
    data_indices,      \* mode -> <<>> (not called) | <<indices>> | <<"ValueError">>
    \* ---- the datasets (DataWrapper objects) and generator_fn
    data_wrapper_list,       \* the datasets passed to generator_fn, in order
    num_z_slices,            \* dataset -> position -> get_num_z_slices_at
    image_sizes,             \* dataset -> (get_image_width, get_image_height)
    position_indices_list,   \* one position list per dataset of data_wrapper_list
    ignore_first_slice,
    tile_split_k,            \* split factor of the generator
    focal_split_k,           \* split factor the focal-plane map was built with
    dataset_slice_pos_tuples,\* built by generator_fn
    gen_pc,                  \* "start" | "built": whether generator_fn has returned
    generators,              \* invocation -> the generator object it returned
    \* ---- read_or_calc_focal_planes and calc_focal_plane
    annotations,       \* the dataset's persisted scalars: name -> value
    init_annotations,  \* the persisted scalars before the first call
    fp_split_k,        \* split_k passed to read_or_calc_focal_planes
    n_cores,           \* n_cores of the running call
    loop_pos_index,    \* the position the loop of the running call is at
    position_index,    \* calc_focal_plane: the position it was last called for
    images,            \* calc_focal_plane: the z-stack it read
    pool_done,         \* the worker pool's finished tasks, in completion order
    powerspectra,      \* calc_focal_plane: the profiles handed to the solver
    focal_planes_ret,  \* the map the running call has built so far
    returned,          \* the maps returned by the calls made so far
    image_reads,       \* position -> read_ground_truth_image calls
    solver_runs,       \* position -> compute_focal_plane calls
    fp_pc,             \* "idle" | "loop" | "loaded" | "parallel" | "spectra"
    \* ---- read_or_calc_design_mat
    arrays,            \* the dataset's persisted arrays: name -> array
    extractor_calls,   \* param_id_string -> evaluate_deterministic_graph calls
    design_calls,      \* the calls that returned: their params and what they returned
    design_pc          \* "ready" | "raised"

geoVars == <<image_size, split_k, patch_meta, geo_pc>>
splitVars == <<n_groups, fv_split_k, training_fraction, data_indices>>
dataVars == <<data_wrapper_list, num_z_slices, image_sizes, position_indices_list,
              ignore_first_slice, tile_split_k, focal_split_k>>
genVars == <<dataset_slice_pos_tuples, gen_pc, generators>>
focalVars == <<annotations, init_annotations, fp_split_k, n_cores, loop_pos_index,
               position_index, images, pool_done, powerspectra, focal_planes_ret,
               returned, image_reads, solver_runs, fp_pc>>
designVars == <<arrays, extractor_calls, design_calls, design_pc>>

vars == <<geoVars, splitVars, dataVars, genVars, focalVars, designVars>>

(***************************************************************************)
(* Bounds of the model                                                     *)
(***************************************************************************)
MaxImageDim == 6      \* image widths and heights tried by get_patch_metadata
MaxGeoSplitK == 13    \* split factors tried by get_patch_metadata
MaxGroups == 3        \* field-of-view groups in the feature array
MaxSplitK == 2        \* split factors tried by the data pipeline
MaxSlices == 5        \* z-slices of the deeper positions
RestartSlices == 2    \* z-slices of the deeper positions when a generator is restarted
FocalSlices == 4      \* z-slices of a position in the focal-plane cache (cubic fit: >= 4)
MaxFocalCalls == 2    \* calls of read_or_calc_focal_planes in one run
DesignSlices == 2     \* z-slices of the deeper positions in the feature cache
MaxDesignCalls == 2   \* calls of read_or_calc_design_mat in one run

(***************************************************************************)
(* Arithmetic helpers                                                      *)
(***************************************************************************)
Min(a, b) == IF a <= b THEN a ELSE b

RECURSIVE Pow2(_)
Pow2(e) == IF e <= 0 THEN 1 ELSE 2 * Pow2(e - 1)

\* floor(log2(a / b)) for integers a >= b >= 1
RECURSIVE FloorLog2Ratio(_, _)
FloorLog2Ratio(a, b) == IF 2 * b <= a THEN 1 + FloorLog2Ratio(a, 2 * b) ELSE 0

\* floor(log2(a / b)) for any integers a, b >= 1 (rounds toward minus infinity)
Log2Floor(a, b) ==
    IF a >= b THEN FloorLog2Ratio(a, b)
    ELSE -(FloorLog2Ratio(b, a) + (IF Pow2(FloorLog2Ratio(b, a)) * a = b THEN 0 ELSE 1))

\* int(np.log2(a / b)): int() truncates toward zero, so a ratio below one
\* gives -floor(log2(b / a)).
Log2Trunc(a, b) ==
    IF a >= b THEN FloorLog2Ratio(a, b) ELSE -FloorLog2Ratio(b, a)

\* 2**e: a Python int for e >= 0, the float 2^e = 1/2^(-e) for e < 0
PowerOfTwo(e) ==
    IF e >= 0 THEN [num |-> Pow2(e), den |-> 1] ELSE [num |-> 1, den |-> Pow2(-e)]

\* shape // patch_size, for the rational patch_size = num / den
FloorDiv(shape, patch_size) == (shape * patch_size.den) \div patch_size.num

\* the elements of a sequence
Range(seq) == {seq[i] : i \in 1..Len(seq)}

\* all orderings of 0 .. n-1
Permutations0(n) ==
    {f \in [1..n -> 0..(n - 1)] : \A i, j \in 1..n : f[i] = f[j] => i = j}

\* seq[from:] with a 0-based start, as a Python slice
SliceFrom(seq, from) == SubSeq(seq, from + 1, Len(seq))

\* seq[:to] with a 0-based end, as a Python slice
SliceTo(seq, to) == SubSeq(seq, 1, Min(to, Len(seq)))

(***************************************************************************)
(* get_patch_metadata(image_size, split_k)                                 *)
(***************************************************************************)
get_patch_metadata(size, k) ==
    LET shape == Min(size[1], size[2])
        patch_size == PowerOfTwo(Log2Trunc(shape, k))
        per_dim == FloorDiv(shape, patch_size)
    IN  [patch_size |-> patch_size, patches_per_image |-> per_dim * per_dim]

(***************************************************************************)
(* feature_vector_generator_fn(feature_vectors, defocus_dists, mode,       *)
(*                             split_k, training_fraction)                 *)
(***************************************************************************)
Modes == {"training", "validation", "all"}

\* the fractions tried: 1/2, 4/5 (the default 0.8) and 1
TrainingFractions ==
    {[num |-> 1, den |-> 2], [num |-> 4, den |-> 5], [num |-> 1, den |-> 1]}

\* int(len(full_indices) * training_fraction)
num_train(n_full, fraction) == (n_full * fraction.num) \div fraction.den

\* the mode branches: the first compares against 'trianing'
select_groups(mode, full_indices, ntrain) ==
    IF mode = "trianing" THEN SliceTo(full_indices, ntrain)
    ELSE IF mode = "validation" THEN SliceFrom(full_indices, ntrain)
    ELSE full_indices

\* np.concatenate([np.arange(splits_per_tile*index, splits_per_tile*(index+1))
\*                 for index in full_indices])
RECURSIVE concat_group_samples(_, _)
concat_group_samples(groups, splits_per_tile) ==
    IF groups = <<>> THEN <<>>
    ELSE [i \in 1..splits_per_tile |-> splits_per_tile * Head(groups) + (i - 1)]
         \o concat_group_samples(Tail(groups), splits_per_tile)

\* np.random.seed(123); np.random.shuffle(data_indices): a fixed reordering that
\* depends on the length alone.  The Mersenne Twister stream is not modelled;
\* the reordering is represented by the reversal.
seeded_shuffle(indices) == [i \in 1..Len(indices) |-> indices[Len(indices) + 1 - i]]

\* what a call leaves when np.concatenate is given an empty list
ValueError == <<"ValueError", "need at least one array to concatenate">>

\* the data_indices built for one call; shuffled is the outcome of the unseeded
\* np.random.shuffle(full_indices)
build_data_indices(mode, shuffled, k, fraction) ==
    LET groups == select_groups(mode, shuffled, num_train(Len(shuffled), fraction))
        indices == concat_group_samples(groups, k * k)
    IN  IF groups = <<>> THEN ValueError   \* np.concatenate of an empty list
        ELSE IF mode = "training" THEN <<seeded_shuffle(indices)>>
        ELSE <<indices>>

(***************************************************************************)
(* The datasets.  A dataset is an id; its attributes are the inputs        *)
(* num_z_slices and image_sizes.  The z step and the true focal planes are *)
(* fixed per dataset and position, distinct enough to tell them apart.     *)
(***************************************************************************)
DatasetIds == {1, 2}
Positions == {0, 1}
ImageSizes == {<<4, 6>>, <<7, 7>>}
PositionLists == {<<>>, <<1>>, <<0, 1>>, <<1, 0>>}

\* data_wrapper.get_pixel_size_z_um()
get_pixel_size_z_um(data_wrapper) == data_wrapper + 1

\* the focal plane calc_focal_plane found for a position of a dataset
position_focal_plane(data_wrapper, pos_index) == 10 * data_wrapper + 3 * pos_index

\* {crop_index: focal_plane for crop_index in range(num_crops)}, num_crops = split_k**2
best_focal_planes(k, focal_plane) == [crop_index \in 0..(k * k - 1) |-> focal_plane]

\* the nested map handed to generator_fn: per dataset, the map that
\* read_or_calc_focal_planes(dataset, focal_split_k) returns
focal_planes ==
    [d \in DatasetIds |-> [p \in Positions |->
        best_focal_planes(focal_split_k, position_focal_plane(d, p))]]

(***************************************************************************)
(* generator_fn(data_wrapper_list, focal_planes, tile_split_k,             *)
(*              position_indices_list, ignore_first_slice)                 *)
(***************************************************************************)
\* the (data_wrapper, z_index, pos_index) tuples of one position, ascending z
slice_tuples(data_wrapper, pos_index, ignore) ==
    LET n == num_z_slices[data_wrapper][pos_index]
        skip == IF ignore /\ n > 0 THEN 1 ELSE 0
    IN  [i \in 1..(n - skip) |->
            [data_wrapper |-> data_wrapper, z_index |-> i - 1 + skip, pos_index |-> pos_index]]

\* the inner loops over pos_index and z_index, for one dataset
RECURSIVE dataset_tuples(_, _, _)
dataset_tuples(data_wrapper, position_indices, ignore) ==
    IF position_indices = <<>> THEN <<>>
    ELSE slice_tuples(data_wrapper, Head(position_indices), ignore)
         \o dataset_tuples(data_wrapper, Tail(position_indices), ignore)

\* the outer loop: dataset_slice_pos_tuples = [] is inside the loop over the
\* datasets, so the list that survives the loop is the last dataset's
flatten_tuples(wrappers, positions, ignore) ==
    LET n == Min(Len(wrappers), Len(positions))   \* zip stops at the shorter
    IN  dataset_tuples(wrappers[n], positions[n], ignore)

\* read_patch(data_wrapper, pos_index, z_index, split_k, patch_index): the patch
\* the dataset returns for that address
read_patch(data_wrapper, pos_index, z_index, k, patch_index) ==
    <<data_wrapper, pos_index, z_index, k, patch_index>>

\* the distance with the opposite sign (slice position minus focal plane)
defocus_dist_negated(data_wrapper, pos_index, z_index, patch_index) ==
    get_pixel_size_z_um(data_wrapper) * z_index
        - focal_planes[data_wrapper][pos_index][patch_index]

\* focal_planes[data_wrapper][pos_index][patch_index] - get_pixel_size_z_um() * z_index
defocus_dist(data_wrapper, pos_index, z_index, patch_index) ==
    focal_planes[data_wrapper][pos_index][patch_index]
        - get_pixel_size_z_um(data_wrapper) * z_index

\* One next() of inner_generator at the loop position (index, patch_index),
\* index counting the tuples from 1.  The body up to the loop runs on every
\* resumption in the model; it reads no state the loop changes.
next_item(tuples, k, index, patch_index) ==
    IF tuples = <<>> THEN [kind |-> "IndexError"]      \* dataset_slice_pos_tuples[0]
    ELSE
    LET meta == get_patch_metadata(image_sizes[tuples[1].data_wrapper], k)
        t == tuples[index]
    IN  IF index > Len(tuples) THEN [kind |-> "StopIteration"]
        ELSE IF meta.patch_size.den > 1
             THEN [kind |-> "TypeError"]               \* range() of a float
        ELSE IF patch_index \notin DOMAIN focal_planes[t.data_wrapper][t.pos_index]
             THEN [kind |-> "KeyError"]
        ELSE [kind |-> "yield",
              item |-> [patch |-> read_patch(t.data_wrapper, t.pos_index, t.z_index,
                                             k, patch_index),
                        defocus_dist |-> defocus_dist(t.data_wrapper, t.pos_index,
                                                      t.z_index, patch_index)],
              index |-> IF patch_index + 1 < meta.patches_per_image
                        THEN index ELSE index + 1,
              patch_index |-> IF patch_index + 1 < meta.patches_per_image
                              THEN patch_index + 1 ELSE 0]

\* a generator object that has not run yet: its own loop position and nothing yielded
fresh_generator == [status |-> "running", index |-> 1, patch_index |-> 0, out |-> <<>>]

\* the generator object after one more next()
advance(tuples, k, g) ==
    LET r == next_item(tuples, k, g.index, g.patch_index)
    IN  IF r.kind = "yield"
        THEN [g EXCEPT !.index = r.index, !.patch_index = r.patch_index,
                       !.out = Append(g.out, r.item)]
        ELSE [g EXCEPT !.status = r.kind]

\* the generator consumed to its end by one consumer
RECURSIVE drain(_, _, _)
drain(tuples, k, g) ==
    IF g.status # "running" THEN g ELSE drain(tuples, k, advance(tuples, k, g))

(***************************************************************************)
(* calc_focal_plane and read_or_calc_focal_planes                          *)
(*                                                                         *)
(* An image is represented by the log power it holds at low and at high    *)
(* spatial frequencies; its radially averaged spectrum has four bins, the  *)
(* first (lowest) holding the low-frequency power.                         *)
(***************************************************************************)
Sharpness == {0, 1}
Images == [low : {2}, high : Sharpness]
PriorFocalPlanes == {7, 9}
CoreCounts == {1, 2}

\* the dataset whose focal planes are computed
focal_dataset == CHOOSE d \in DatasetIds : \A e \in DatasetIds : d <= e

\* data_wrapper.get_num_xy_positions()
get_num_xy_positions == Cardinality(Positions)

\* 'pos{}_focal_plane'.format(pos_index), without the position index
get_name_unindexed(pos) == <<"pos", "_focal_plane">>

\* 'pos{}_focal_plane'.format(pos_index)
get_name(pos) == <<"pos", pos, "_focal_plane">>

\* data_wrapper.read_focal_plane(name): None when nothing is persisted
read_focal_plane(store, name) == IF name \in DOMAIN store THEN <<store[name]>> ELSE <<>>

\* data_wrapper.store_focal_plane(name, value)
store_focal_plane(store, name, value) ==
    [n \in DOMAIN store \cup {name} |-> IF n = name THEN value ELSE store[n]]

\* calc_power_spectrum(crop(image, 0, 1)): the radial profile of the image
calc_power_spectrum(image) == <<image.low, image.high, image.high, image.high>>

RECURSIVE SumFrom(_, _)
SumFrom(profile, first) ==
    IF first > Len(profile) THEN 0 ELSE profile[first] + SumFrom(profile, first + 1)

\* np.sum(powerspectra_arr[:, powerspectra_arr.shape[1] // 4:], axis=1)
pssum(powerspectralist) ==
    [i \in 1..Len(powerspectralist) |->
        SumFrom(powerspectralist[i], (Len(powerspectralist[i]) \div 4) + 1)]

\* np.argmax: the 0-based index of the first maximum
argmax(scores) ==
    (CHOOSE i \in 1..Len(scores) :
        /\ \A j \in 1..Len(scores) : scores[j] <= scores[i]
        /\ \A j \in 1..(i - 1) : scores[j] < scores[i]) - 1

\* compute_focal_plane(powerspectralist).  The cubic interpolant is sampled at
\* the slice positions only: the model has no sub-slice resolution.
compute_focal_plane(powerspectralist) ==
    argmax(pssum(powerspectralist)) * get_pixel_size_z_um(focal_dataset)

\* [radial_avg_power_spectrum(image) for image in images]
sequential_powerspectra(stack) ==
    [i \in 1..Len(stack) |-> calc_power_spectrum(stack[i])]

\* the results of the pool in the order the workers finished
collect_in_completion_order(done) == [i \in 1..Len(done) |-> done[i].spectrum]

\* parallel(delayed(radial_avg_power_spectrum)(image) for image in images):
\* joblib returns the results in the order of the tasks
collect_in_task_order(done) ==
    [i \in 1..Len(done) |->
        (CHOOSE r \in Range(done) : r.slice = i).spectrum]

\* for crop_index in focal_plane.keys(): store_focal_plane(get_name(pos_index), ...)
RECURSIVE store_crops(_, _, _, _)
store_crops(store, name, focal_plane, crop_index) ==
    IF crop_index \notin DOMAIN focal_plane THEN store
    ELSE store_crops(store_focal_plane(store, name, focal_plane[crop_index]),
                     name, focal_plane, crop_index + 1)

\* the map with one more key
Put(map, key, value) ==
    [k \in DOMAIN map \cup {key} |-> IF k = key THEN value ELSE map[k]]

(***************************************************************************)
(* read_or_calc_design_mat and the array storage of MagellanWithAnnotation *)
(*                                                                         *)
(* deterministic_params is a dict: a sequence of (key, value) items in     *)
(* insertion order.                                                        *)
(***************************************************************************)
params_of(k) == <<<<"tile_split_k", k>>, <<"architecture", 1>>>>
params_reordered(k) == <<<<"architecture", 1>>, <<"tile_split_k", k>>>>

\* the configurations tried: one per split factor, and the first of them again
\* with its items inserted in the other order
ParamChoices == {params_of(k) : k \in 1..MaxSplitK} \cup {params_reordered(1)}

\* deterministic_params[key]
dict_get(params, key) == params[CHOOSE i \in 1..Len(params) : params[i][1] = key][2]

\* str(deterministic_params): the items as written, in insertion order
str(params) == <<"{", params, "}">>

feature_name(params) == <<"features_", str(params)>>
defocus_name(params) == <<"defocus_dists_", str(params)>>

\* MagellanWithAnnotation.read_array: a copy of the stored array, or None
read_array(file, name) == IF name \in DOMAIN file THEN <<file[name]>> ELSE <<>>

\* a store_array that writes nothing
store_array_lost(file, name, array) == file

\* MagellanWithAnnotation.store_array: an array of that name is replaced
store_array(file, name, array) ==
    [n \in DOMAIN file \cup {name} |-> IF n = name THEN array ELSE file[n]]

\* DefocusNetwork.evaluate_deterministic_graph on a consumed patch stream: one
\* feature vector per patch, a fixed function of the patch, and its target
evaluate_deterministic_graph(pairs) ==
    [features |-> [i \in 1..Len(pairs) |-> [fft_of |-> pairs[i].patch]],
     defocus_dists |-> [i \in 1..Len(pairs) |-> pairs[i].defocus_dist]]

\* arrays a previous run may have left behind
stale_features == <<[fft_of |-> <<0, 0, 0, 0, 0>>]>>
stale_defocus_dists == <<0>>

(***************************************************************************)
(* The idle state of each component, for the specifications that do not    *)
(* run it                                                                  *)
(***************************************************************************)
GeoIdle ==
    /\ image_size = <<1, 1>>
    /\ split_k = 1
    /\ patch_meta = <<>>
    /\ geo_pc = "idle"

SplitIdle ==
    /\ n_groups = 0
    /\ fv_split_k = 1
    /\ training_fraction = [num |-> 1, den |-> 1]
    /\ data_indices = <<>>

DataIdle ==
    /\ data_wrapper_list = <<>>
    /\ num_z_slices = <<>>
    /\ image_sizes = <<>>
    /\ position_indices_list = <<>>
    /\ ignore_first_slice = FALSE
    /\ tile_split_k = 1
    /\ focal_split_k = 1

GenIdle ==
    /\ dataset_slice_pos_tuples = <<>>
    /\ gen_pc = "idle"
    /\ generators = <<>>

FocalIdle ==
    /\ annotations = <<>>
    /\ init_annotations = <<>>
    /\ fp_split_k = 1
    /\ n_cores = 1
    /\ loop_pos_index = 0
    /\ position_index = 0
    /\ images = <<>>
    /\ pool_done = <<>>
    /\ powerspectra = <<>>
    /\ focal_planes_ret = <<>>
    /\ returned = <<>>
    /\ image_reads = <<>>
    /\ solver_runs = <<>>
    /\ fp_pc = "off"

DesignIdle ==
    /\ arrays = <<>>
    /\ extractor_calls = <<>>
    /\ design_calls = <<>>
    /\ design_pc = "off"

(***************************************************************************)
(* Component: get_patch_metadata                                           *)
(***************************************************************************)
GeoInit ==
    /\ image_size \in (1..MaxImageDim) \X (1..MaxImageDim)
    /\ split_k \in 1..MaxGeoSplitK
    /\ patch_meta = <<>>
    /\ geo_pc = "start"

CallGetPatchMetadata ==
    /\ geo_pc = "start"
    /\ patch_meta' = <<get_patch_metadata(image_size, split_k)>>
    /\ geo_pc' = "done"
    /\ UNCHANGED <<image_size, split_k>>
    /\ UNCHANGED <<splitVars, dataVars, genVars, focalVars, designVars>>

GeoNext == CallGetPatchMetadata

InitGeo == GeoInit /\ SplitIdle /\ DataIdle /\ GenIdle /\ FocalIdle /\ DesignIdle

SpecGeo == InitGeo /\ [][GeoNext]_vars

(***************************************************************************)
(* Claims about get_patch_metadata                                         *)
(***************************************************************************)
geo_shape == Min(image_size[1], image_size[2])
geo_patch == patch_meta[1].patch_size
geo_per_dim == (geo_shape * geo_patch.den) \div geo_patch.num

\* n is a power of two with a non-negative exponent
RECURSIVE IsPow2(_)
IsPow2(n) == n = 1 \/ (n > 1 /\ n % 2 = 0 /\ IsPow2(n \div 2))

\* C9 (as stated): patch_size is the power of two 2^floor(log2(shape / split_k)),
\* i.e. the power of two p with p <= shape / split_k < 2p, for every split_k > 0;
\* patch_size * floor(shape / patch_size) <= shape and
\* patches_per_image = floor(shape / patch_size)^2.
C9_FloorEverywhere ==
    geo_pc = "done" =>
        /\ IsPow2(geo_patch.num) /\ IsPow2(geo_patch.den)
        /\ geo_patch.num = 1 \/ geo_patch.den = 1
        /\ geo_patch.num * split_k <= geo_shape * geo_patch.den
        /\ geo_shape * geo_patch.den < 2 * geo_patch.num * split_k
        /\ geo_patch.num * geo_per_dim <= geo_shape * geo_patch.den
        /\ patch_meta[1].patches_per_image = geo_per_dim * geo_per_dim

\* C9 (amended): the exponent is log2(shape / split_k) rounded toward zero.
\* For split_k <= shape that is the floor: patch_size is the integer power of
\* two p with p <= shape / split_k < 2p.  For split_k > shape it is the
\* reciprocal 1/q of the power of two q with q <= split_k / shape < 2q.
\* In both cases patch_size * floor(shape / patch_size) <= shape and
\* patches_per_image = floor(shape / patch_size)^2.
C9_TruncTowardZero ==
    geo_pc = "done" =>
        /\ IsPow2(geo_patch.num) /\ IsPow2(geo_patch.den)
        /\ split_k <= geo_shape =>
              /\ geo_patch.den = 1
              /\ geo_patch.num * split_k <= geo_shape
              /\ geo_shape < 2 * geo_patch.num * split_k
        /\ split_k > geo_shape =>
              /\ geo_patch.num = 1
              /\ geo_shape * geo_patch.den <= split_k
              /\ split_k < 2 * geo_shape * geo_patch.den
        /\ geo_patch.num * geo_per_dim <= geo_shape * geo_patch.den
        /\ patch_meta[1].patches_per_image = geo_per_dim * geo_per_dim

\* C9 witness: a split_k above the image size that is not a power-of-two
\* multiple of it has been evaluated (3 patches asked of a 2-pixel image).
C9_Witness ==
    /\ geo_pc = "done"
    /\ geo_shape = 2 /\ split_k = 3
    /\ geo_patch = [num |-> 1, den |-> 1]

(***************************************************************************)
(* Component: the training / validation split                              *)
(***************************************************************************)
SplitInit ==
    /\ n_groups \in 1..MaxGroups
    /\ fv_split_k \in 1..MaxSplitK
    /\ training_fraction \in TrainingFractions
    /\ data_indices = [m \in Modes |-> <<>>]

\* one call of feature_vector_generator_fn with the given mode
CallFeatureVectorGeneratorFn ==
    \E mode \in Modes, shuffled \in Permutations0(n_groups) :
        /\ n_groups > 0
        /\ data_indices[mode] = <<>>
        /\ data_indices' = [data_indices EXCEPT
               ![mode] = build_data_indices(mode, shuffled, fv_split_k, training_fraction)]
        /\ UNCHANGED <<n_groups, fv_split_k, training_fraction>>
        /\ UNCHANGED <<geoVars, dataVars, genVars, focalVars, designVars>>

SplitNext == CallFeatureVectorGeneratorFn

InitSplit == SplitInit /\ GeoIdle /\ DataIdle /\ GenIdle /\ FocalIdle /\ DesignIdle

SpecSplit == InitSplit /\ [][SplitNext]_vars

\* the sequence a mode's generator yields (sample indices), when it was built
Built(mode) == Len(data_indices[mode]) = 1
Samples(mode) == Range(data_indices[mode][1])
GroupsOf(mode) == {s \div (fv_split_k * fv_split_k) : s \in Samples(mode)}
SamplesOfGroups(gs) ==
    {s \in 0..(n_groups * fv_split_k * fv_split_k - 1) : s \div (fv_split_k * fv_split_k) \in gs}

\* C1: the 'training' sequence holds exactly the samples of
\* floor(G * training_fraction) groups, the 'validation' sequence exactly the
\* samples of the other G - floor(G * training_fraction) groups, and no group
\* has samples in both.
C1_SplitByWholeGroups ==
    LET ntrain == num_train(n_groups, training_fraction) IN
    /\ Built("training") =>
          /\ Cardinality(GroupsOf("training")) = ntrain
          /\ Samples("training") = SamplesOfGroups(GroupsOf("training"))
    /\ Built("validation") =>
          /\ Cardinality(GroupsOf("validation")) = n_groups - ntrain
          /\ Samples("validation") = SamplesOfGroups(GroupsOf("validation"))
    /\ (Built("training") /\ Built("validation")) =>
          GroupsOf("training") \cap GroupsOf("validation") = {}

(***************************************************************************)
(* Component: generator_fn and the generators it returns                   *)
(***************************************************************************)
Invocations == {1, 2}

not_invoked == [status |-> "none", index |-> 1, patch_index |-> 0, out |-> <<>>]

\* the datasets and arguments of one generator_fn call
DataInit(wrapper_lists, deep) ==
    /\ data_wrapper_list \in wrapper_lists
    /\ num_z_slices \in [Range(data_wrapper_list) -> [Positions -> {1, deep}]]
    /\ image_sizes \in [Range(data_wrapper_list) -> ImageSizes]
    /\ position_indices_list \in [1..Len(data_wrapper_list) -> PositionLists]
    /\ ignore_first_slice \in BOOLEAN
    /\ tile_split_k \in 1..MaxSplitK
    /\ focal_split_k \in 1..MaxSplitK

GenInit ==
    /\ DataInit({<<1>>, <<1, 2>>}, MaxSlices)
    /\ dataset_slice_pos_tuples = <<>>
    /\ gen_pc = "start"
    /\ generators = [g \in Invocations |-> not_invoked]

RestartInit ==
    /\ DataInit({<<1>>}, RestartSlices)
    /\ dataset_slice_pos_tuples = <<>>
    /\ gen_pc = "start"
    /\ generators = [g \in Invocations |-> not_invoked]

\* generator_fn up to its return: the tuples are built eagerly
CallGeneratorFn ==
    /\ gen_pc = "start"
    /\ dataset_slice_pos_tuples' =
           flatten_tuples(data_wrapper_list, position_indices_list, ignore_first_slice)
    /\ gen_pc' = "built"
    /\ UNCHANGED <<generators, dataVars, geoVars, splitVars, focalVars, designVars>>

\* a second invocation that continues where the generators so far have arrived
start_iteration_shared(g) ==
    IF \E h \in Invocations : h # g /\ generators[h].status # "none"
    THEN LET h == CHOOSE h \in Invocations : h # g /\ generators[h].status # "none"
         IN  [generators[h] EXCEPT !.out = <<>>]
    ELSE fresh_generator

\* lambda: inner_generator(indices, focal_planes): each invocation makes a new
\* generator object, whose loop iterates the array indices from its start
start_iteration(g) == fresh_generator

\* the returned callable is invoked
InvokeGenerator(g) ==
    /\ gen_pc = "built"
    /\ generators[g].status = "none"
    /\ generators' = [generators EXCEPT ![g] = start_iteration(g)]
    /\ UNCHANGED <<dataset_slice_pos_tuples, gen_pc, dataVars, geoVars, splitVars, focalVars, designVars>>

\* next() on the generator of invocation g
NextOfGenerator(g) ==
    /\ generators[g].status = "running"
    /\ generators' = [generators EXCEPT
           ![g] = advance(dataset_slice_pos_tuples, tile_split_k, generators[g])]
    /\ UNCHANGED <<dataset_slice_pos_tuples, gen_pc, dataVars, geoVars, splitVars, focalVars, designVars>>

GenNext ==
    \/ CallGeneratorFn
    \/ InvokeGenerator(1)
    \/ NextOfGenerator(1)

RestartNext ==
    \/ CallGeneratorFn
    \/ \E g \in Invocations : InvokeGenerator(g)
    \/ \E g \in Invocations : NextOfGenerator(g)

InitGen == GenInit /\ GeoIdle /\ SplitIdle /\ FocalIdle /\ DesignIdle

SpecGen == InitGen /\ [][GenNext]_vars

InitRestart == RestartInit /\ GeoIdle /\ SplitIdle /\ FocalIdle /\ DesignIdle

SpecRestart == InitRestart /\ [][RestartNext]_vars

(***************************************************************************)
(* Claims about generator_fn                                               *)
(***************************************************************************)
IsPrefix(s, t) == Len(s) <= Len(t) /\ SubSeq(t, 1, Len(s)) = s

patches_per_image(data_wrapper) ==
    get_patch_metadata(image_sizes[data_wrapper], tile_split_k).patches_per_image

\* the slices of a position that are kept, and the first of them
KeptSlices(d, p) ==
    num_z_slices[d][p] - (IF ignore_first_slice /\ num_z_slices[d][p] > 0 THEN 1 ELSE 0)
FirstKept(d, p) == IF ignore_first_slice THEN 1 ELSE 0

\* the pairs of one position: slices ascending, and per slice the patch
\* indices 0 .. patches_per_image - 1 ascending
ExpectedOfPosition(d, p) ==
    LET ppi == patches_per_image(d) IN
    [j \in 1..(KeptSlices(d, p) * ppi) |->
        LET z == ((j - 1) \div ppi) + FirstKept(d, p)
            i == (j - 1) % ppi
        IN  [patch |-> <<d, p, z, tile_split_k, i>>,
             defocus_dist |-> position_focal_plane(d, p) - get_pixel_size_z_um(d) * z]]

RECURSIVE ExpectedOfDataset(_, _)
ExpectedOfDataset(d, positions) ==
    IF positions = <<>> THEN <<>>
    ELSE ExpectedOfPosition(d, Head(positions)) \o ExpectedOfDataset(d, Tail(positions))

RECURSIVE ExpectedOfList(_, _)
ExpectedOfList(wrappers, positions) ==
    IF wrappers = <<>> THEN <<>>
    ELSE ExpectedOfDataset(Head(wrappers), Head(positions))
         \o ExpectedOfList(Tail(wrappers), Tail(positions))

\* C2: a fully consumed generator has yielded exactly one pair for every
\* dataset of the list, listed position, kept slice and patch index, so its
\* length is the sum of patches_per_image over all of them.
C2_EveryDatasetYields ==
    generators[1].status = "StopIteration" =>
        LET expected == ExpectedOfList(data_wrapper_list, position_indices_list)
        IN  /\ Len(generators[1].out) = Len(expected)
            /\ \A e \in Range(expected) :
                  Cardinality({j \in 1..Len(generators[1].out) :
                                  generators[1].out[j] = e}) = 1

C4_Restartable ==
    \A g, h \in Invocations :
        (generators[g].status # "none" /\ generators[h].status # "none") =>
            /\ IsPrefix(generators[g].out, generators[h].out)
                 \/ IsPrefix(generators[h].out, generators[g].out)
            /\ (generators[g].status # "running" /\ generators[h].status # "running") =>
                 /\ generators[g].out = generators[h].out
                 /\ generators[g].status = generators[h].status

\* C4 witness: the second invocation was made after the first generator had
\* been consumed, and both have ended after the same several pairs.
C4_Witness ==
    /\ generators[1].status = "StopIteration"
    /\ generators[2].status = "StopIteration"
    /\ Len(generators[1].out) > 2
    /\ generators[2].out = generators[1].out

\* C10: with the focal-plane map built for the generator's own split_k,
\* consuming the generator never fails on a missing focal-plane entry.
C10_EveryPatchHasFocalPlane ==
    focal_split_k = tile_split_k => generators[1].status # "KeyError"

(***************************************************************************)
(* Component: read_or_calc_focal_planes                                    *)
(***************************************************************************)
PositionRange == 0..(get_num_xy_positions - 1)
PositionNames == {get_name(p) : p \in PositionRange}

FocalInit ==
    /\ \E present \in SUBSET PositionNames :
           annotations \in [present -> PriorFocalPlanes]
    /\ init_annotations = annotations
    /\ fp_split_k \in 1..MaxSplitK
    /\ n_cores = 1
    /\ loop_pos_index = 0
    /\ position_index = 0
    /\ images = <<>>
    /\ pool_done = <<>>
    /\ powerspectra = <<>>
    /\ focal_planes_ret = <<>>
    /\ returned = <<>>
    /\ image_reads = [p \in PositionRange |-> 0]
    /\ solver_runs = [p \in PositionRange |-> 0]
    /\ fp_pc = "idle"

othersOfFocal == <<geoVars, splitVars, dataVars, genVars, designVars>>

\* read_or_calc_focal_planes is called, single threaded or with a worker pool
CallReadOrCalcFocalPlanes ==
    \E cores \in CoreCounts :
        /\ fp_pc = "idle"
        /\ Len(returned) < MaxFocalCalls
        /\ n_cores' = cores
        /\ loop_pos_index' = 0
        /\ focal_planes_ret' = <<>>
        /\ fp_pc' = "loop"
        /\ UNCHANGED <<annotations, init_annotations, fp_split_k, position_index, images,
                       pool_done, powerspectra, returned, image_reads, solver_runs>>
        /\ UNCHANGED othersOfFocal

\* read_or_compute, else branch: the persisted value is reused for every crop
\* (the locals of an earlier calc_focal_plane are gone)
ReadPrecomputed ==
    /\ fp_pc = "loop"
    /\ loop_pos_index < get_num_xy_positions
    /\ read_focal_plane(annotations, get_name(loop_pos_index)) # <<>>
    /\ focal_planes_ret' = Put(focal_planes_ret, loop_pos_index,
           [crop_index \in 0..(fp_split_k * fp_split_k - 1) |->
               read_focal_plane(annotations, get_name(loop_pos_index))[1]])
    /\ loop_pos_index' = loop_pos_index + 1
    /\ images' = <<>> /\ pool_done' = <<>> /\ powerspectra' = <<>>
    /\ UNCHANGED <<annotations, init_annotations, fp_split_k, n_cores, position_index,
                   returned, image_reads, solver_runs, fp_pc>>
    /\ UNCHANGED othersOfFocal

\* read_or_compute, if branch, and calc_focal_plane up to the loaded z-stack
LoadImages ==
    \E stack \in [1..FocalSlices -> Images] :
        /\ fp_pc = "loop"
        /\ loop_pos_index < get_num_xy_positions
        /\ read_focal_plane(annotations, get_name(loop_pos_index)) = <<>>
        /\ position_index' = loop_pos_index
        /\ images' = stack
        /\ image_reads' = [image_reads EXCEPT ![loop_pos_index] = @ + Len(stack)]
        /\ powerspectra' = <<>>
        /\ pool_done' = <<>>
        /\ fp_pc' = "loaded"
        /\ UNCHANGED <<annotations, init_annotations, fp_split_k, n_cores, loop_pos_index,
                       focal_planes_ret, returned, solver_runs>>
        /\ UNCHANGED othersOfFocal

\* parallel is None: the list comprehension over the images
SequentialSpectra ==
    /\ fp_pc = "loaded"
    /\ n_cores = 1
    /\ powerspectra' = sequential_powerspectra(images)
    /\ fp_pc' = "spectra"
    /\ UNCHANGED <<annotations, init_annotations, fp_split_k, n_cores, loop_pos_index,
                   position_index, images, pool_done, focal_planes_ret, returned,
                   image_reads, solver_runs>>
    /\ UNCHANGED othersOfFocal

\* the tasks are handed to the pool
DispatchToPool ==
    /\ fp_pc = "loaded"
    /\ n_cores # 1
    /\ pool_done' = <<>>
    /\ fp_pc' = "parallel"
    /\ UNCHANGED <<annotations, init_annotations, fp_split_k, n_cores, loop_pos_index,
                   position_index, images, powerspectra, focal_planes_ret, returned,
                   image_reads, solver_runs>>
    /\ UNCHANGED othersOfFocal

\* a worker finishes the task of one slice; the workers finish in any order
WorkerFinishes ==
    \E slice \in 1..Len(images) :
        /\ fp_pc = "parallel"
        /\ \A r \in Range(pool_done) : r.slice # slice
        /\ pool_done' = Append(pool_done,
               [slice |-> slice, spectrum |-> calc_power_spectrum(images[slice])])
        /\ UNCHANGED <<annotations, init_annotations, fp_split_k, n_cores, loop_pos_index,
                       position_index, images, powerspectra, focal_planes_ret, returned,
                       image_reads, solver_runs, fp_pc>>
        /\ UNCHANGED othersOfFocal

\* the parallel call returns once every task is done
CollectFromPool ==
    /\ fp_pc = "parallel"
    /\ Len(pool_done) = Len(images)
    /\ powerspectra' = collect_in_task_order(pool_done)
    /\ fp_pc' = "spectra"
    /\ UNCHANGED <<annotations, init_annotations, fp_split_k, n_cores, loop_pos_index,
                   position_index, images, pool_done, focal_planes_ret, returned,
                   image_reads, solver_runs>>
    /\ UNCHANGED othersOfFocal

\* the solver runs, calc_focal_plane returns and read_or_compute persists the value
SolveAndStore ==
    /\ fp_pc = "spectra"
    /\ LET focal_plane == best_focal_planes(fp_split_k, compute_focal_plane(powerspectra))
       IN  /\ annotations' = store_crops(annotations, get_name(loop_pos_index), focal_plane, 0)
           /\ focal_planes_ret' = Put(focal_planes_ret, loop_pos_index, focal_plane)
    /\ solver_runs' = [solver_runs EXCEPT ![loop_pos_index] = @ + 1]
    /\ loop_pos_index' = loop_pos_index + 1
    /\ fp_pc' = "loop"
    /\ UNCHANGED <<init_annotations, fp_split_k, n_cores, position_index, images, pool_done,
                   powerspectra, returned, image_reads>>
    /\ UNCHANGED othersOfFocal

\* every position is done: the map is returned (the locals of calc_focal_plane
\* are gone)
ReturnFocalPlanes ==
    /\ fp_pc = "loop"
    /\ loop_pos_index = get_num_xy_positions
    /\ returned' = Append(returned, focal_planes_ret)
    /\ fp_pc' = "idle"
    /\ images' = <<>> /\ pool_done' = <<>> /\ powerspectra' = <<>>
    /\ UNCHANGED <<annotations, init_annotations, fp_split_k, n_cores, loop_pos_index,
                   position_index, focal_planes_ret, image_reads, solver_runs>>
    /\ UNCHANGED othersOfFocal

FocalNext ==
    \/ CallReadOrCalcFocalPlanes
    \/ ReadPrecomputed
    \/ LoadImages
    \/ SequentialSpectra
    \/ DispatchToPool
    \/ WorkerFinishes
    \/ CollectFromPool
    \/ SolveAndStore
    \/ ReturnFocalPlanes

InitFocal == FocalInit /\ GeoIdle /\ SplitIdle /\ DataIdle /\ GenIdle /\ DesignIdle

SpecFocal == InitFocal /\ [][FocalNext]_vars

(***************************************************************************)
(* Claims about the focal-plane cache                                      *)
(***************************************************************************)
\* C7: whatever the order in which the workers finish, the profiles handed to
\* the solver are in slice order (profile i is that of slice i), and the value
\* persisted and returned for the position is the one the single-threaded
\* path computes from the same z-stack.
C7_ParallelAsSequential ==
    /\ fp_pc = "spectra" =>
          /\ Len(powerspectra) = Len(images)
          /\ \A i \in 1..Len(images) : powerspectra[i] = calc_power_spectrum(images[i])
    /\ (fp_pc \in {"loop", "idle"} /\ images # <<>>) =>
          /\ annotations[get_name(position_index)] =
                 compute_focal_plane(sequential_powerspectra(images))
          /\ \A crop_index \in 0..(fp_split_k * fp_split_k - 1) :
                 position_index \in DOMAIN focal_planes_ret =>
                     focal_planes_ret[position_index][crop_index] =
                         compute_focal_plane(sequential_powerspectra(images))

\* C7 witness: the workers finished the last slice first, the sharpest slice
\* is not the first one, and the value of the position has been persisted.
C7_Witness ==
    /\ n_cores # 1
    /\ fp_pc = "loop"
    /\ images # <<>>
    /\ Len(pool_done) = Len(images)
    /\ pool_done[1].slice = Len(images)
    /\ pool_done[1].spectrum # pool_done[2].spectrum
    /\ get_name(position_index) \in DOMAIN annotations
    /\ annotations[get_name(position_index)] > 0
    /\ position_index \in DOMAIN focal_planes_ret

\* C8: a position with a persisted value is never read nor solved, its value
\* stays and is returned for every patch index; a position without one is
\* solved exactly once and persisted; after a call every position has a
\* persisted value, and a later call returns the same map.
C8_ComputedOncePerPosition ==
    /\ \A p \in PositionRange :
          LET name == <<"pos", p, "_focal_plane">>
              cached == [crop_index \in 0..(fp_split_k * fp_split_k - 1) |->
                            annotations[name]]
          IN  /\ name \in DOMAIN init_annotations =>
                    /\ image_reads[p] = 0 /\ solver_runs[p] = 0
                    /\ annotations[name] = init_annotations[name]
              /\ name \notin DOMAIN init_annotations =>
                    /\ solver_runs[p] <= 1
                    /\ image_reads[p] <= FocalSlices
                    /\ (solver_runs[p] = 1) = (name \in DOMAIN annotations)
              /\ Len(returned) >= 1 =>
                    /\ name \in DOMAIN annotations
                    /\ \A c \in 1..Len(returned) : returned[c][p] = cached
    /\ \A c \in 2..Len(returned) : returned[c] = returned[1]

\* C8 witness: two calls have returned; one position was persisted before
\* the first call and the other was computed by it.
C8_Witness ==
    /\ Len(returned) = 2
    /\ \E p, q \in PositionRange :
          /\ <<"pos", p, "_focal_plane">> \in DOMAIN init_annotations
          /\ solver_runs[q] = 1 /\ image_reads[q] = FocalSlices

(***************************************************************************)
(* Component: read_or_calc_design_mat                                      *)
(***************************************************************************)
ParamStrings == {str(p) : p \in ParamChoices}

\* what a previous run with some configuration may have persisted
PersistedStates ==
    UNION {{<<>>,
            store_array(<<>>, feature_name(p), stale_features),
            store_array(<<>>, defocus_name(p), stale_defocus_dists),
            store_array(store_array(<<>>, feature_name(p), stale_features),
                        defocus_name(p), stale_defocus_dists)} : p \in ParamChoices}

DesignInit ==
    /\ data_wrapper_list = <<focal_dataset>>
    /\ num_z_slices \in [Range(data_wrapper_list) -> [Positions -> {1, DesignSlices}]]
    /\ image_sizes \in [Range(data_wrapper_list) -> ImageSizes]
    /\ position_indices_list \in [1..1 -> PositionLists]
    /\ ignore_first_slice = TRUE
    /\ tile_split_k = 1
    /\ focal_split_k \in 1..MaxSplitK
    /\ arrays \in PersistedStates
    /\ extractor_calls = [s \in ParamStrings |-> 0]
    /\ design_calls = <<>>
    /\ design_pc = "ready"

\* one call of read_or_calc_design_mat on the dataset
CallReadOrCalcDesignMat ==
    \E params \in ParamChoices :
        LET features == read_array(arrays, feature_name(params))
            defocus_dists == read_array(arrays, defocus_name(params))
            generated == drain(flatten_tuples(data_wrapper_list, position_indices_list, TRUE),
                               dict_get(params, "tile_split_k"), fresh_generator)
            computed == evaluate_deterministic_graph(generated.out)
        IN  /\ design_pc = "ready"
            /\ Len(design_calls) < MaxDesignCalls
            /\ IF features = <<>>
               THEN /\ extractor_calls' =
                           [extractor_calls EXCEPT ![str(params)] = @ + 1]
                    /\ IF generated.status = "StopIteration"
                       THEN /\ arrays' = store_array(
                                    store_array(arrays, feature_name(params),
                                                computed.features),
                                    defocus_name(params), computed.defocus_dists)
                            /\ design_calls' = Append(design_calls,
                                    [params |-> params,
                                     features |-> <<computed.features>>,
                                     defocus_dists |-> <<computed.defocus_dists>>])
                            /\ UNCHANGED design_pc
                       ELSE /\ design_pc' = "raised"   \* the generator's exception
                            /\ UNCHANGED <<arrays, design_calls>>
               ELSE /\ design_calls' = Append(design_calls,
                            [params |-> params, features |-> features,
                             defocus_dists |-> defocus_dists])
                    /\ UNCHANGED <<arrays, extractor_calls, design_pc>>
            /\ UNCHANGED <<dataVars, genVars, geoVars, splitVars, focalVars>>

DesignNext == CallReadOrCalcDesignMat

InitDesign == DesignInit /\ GeoIdle /\ SplitIdle /\ GenIdle /\ FocalIdle

SpecDesign == InitDesign /\ [][DesignNext]_vars

(***************************************************************************)
(* Claims about the feature cache                                          *)
(***************************************************************************)
\* C5: over the calls of one run the extractor is invoked at most once per
\* configuration string, and two calls with identical deterministic_params
\* return the same (features, targets) pair.
C5_ExtractedAtMostOnce ==
    /\ \A s \in ParamStrings : extractor_calls[s] <= 1
    /\ \A i, j \in 1..Len(design_calls) :
          design_calls[i].params = design_calls[j].params =>
              /\ design_calls[i].features = design_calls[j].features
              /\ design_calls[i].defocus_dists = design_calls[j].defocus_dists

\* C5 witness: two calls with the same parameters have returned a non-empty
\* design matrix that the extractor computed, once.
C5_Witness ==
    /\ Len(design_calls) = 2
    /\ design_calls[1].params = design_calls[2].params
    /\ extractor_calls[str(design_calls[1].params)] = 1
    /\ design_calls[2].features # <<>>
    /\ Len(design_calls[2].features[1]) > 1

\* C6: a call never returns None for the features or the targets, and after
\* it returns both arrays are persisted under the key.
C6_BothArraysAfterCall ==
    \A c \in 1..Len(design_calls) :
        /\ design_calls[c].features # <<>>
        /\ design_calls[c].defocus_dists # <<>>
        /\ feature_name(design_calls[c].params) \in DOMAIN arrays
        /\ defocus_name(design_calls[c].params) \in DOMAIN arrays

====
